---- MODULE Spec2Model ----
(***************************************************************************)
(* Model of tinder_scrap.py: the TinderScraper polling loop                *)
(* (run_continuous_scraping), the page fetcher (make_recs_request), the    *)
(* extractor (extract_users_from_response), the CSV appender               *)
(* (save_users_to_csv) and the age calculator (calculate_age).             *)
(*                                                                         *)
(* Python values are encoded as follows.  None is the integer -1.  A user  *)
(* id is an opaque string; ids are numbered 1..NumIds and the empty string *)
(* is 0, so that Python truthiness (None, "" and 0 are falsy) is one test. *)
(* A JSON object is a record whose DOMAIN is its key set; a JSON array is  *)
(* a sequence.  A str body (response.text) is a sequence of tokens, and    *)
(* the substring test  'data' in text  is token membership.                *)
(***************************************************************************)
EXTENDS Integers, Sequences, FiniteSets, TLC

VARIABLES
    users_collected,    \* self.users_collected: list of user_data dicts
    request_count,      \* self.request_count
    csv_rows,           \* data rows of the CSV file (after the header row)
    max_requests,       \* parameter of run_continuous_scraping
    pc,                 \* position of run_continuous_scraping
    status_code,        \* local status_code of the last fetch
    response_data,      \* local response_data of the last fetch
    initial_user_count, \* local initial_user_count
    new_users_count,    \* local new_users_count
    json_error,         \* the JSONDecodeError handler of make_recs_request ran
    fetches,            \* number of calls of make_recs_request
    stop_reason,        \* how the while loop was left
    summary_runs,       \* number of times the finally block printed the summary
    reported,           \* what the summary printed
    escaped,            \* an exception left run_continuous_scraping
    today,              \* datetime.now() as <<year, month, day>>
    birth,              \* <<year, month, day>> that birth_date_str was written from
    birth_date_str,     \* argument of calculate_age, as characters
    age                 \* result of calculate_age

vars == <<users_collected, request_count, csv_rows, max_requests, pc,
          status_code, response_data, initial_user_count, new_users_count,
          json_error, fetches, stop_reason, summary_runs, reported, escaped,
          today, birth, birth_date_str, age>>

scraper_vars == <<users_collected, request_count, csv_rows, max_requests, pc,
          status_code, response_data, initial_user_count, new_users_count,
          json_error, fetches, stop_reason, summary_runs, reported, escaped>>

age_vars == <<today, birth, birth_date_str, age>>

-----------------------------------------------------------------------------
(* Bounds of the model *)

NumIds == 2
MaxResults == 2
MaxLimit == 2
MaxTextLen == 2

-----------------------------------------------------------------------------
(* Python values *)

None == -1
EmptyStr == 0
Unbound == -2
HTTP_OK == 200
\* statuses of a refused request
ErrorStatuses == {429, 401}

Ids == 1..NumIds

\* Python truthiness of None, a string or an int
Truthy(v) == v # None /\ v # EmptyStr

\* dict.get(key, default)
Get(obj, key, default) == IF key \in DOMAIN obj THEN obj[key] ELSE default

IsStr(body) == body.kind = "text"

\* needle in text, for a str
StrContains(text, needle) == \E i \in 1..Len(text) : text[i] = needle

RECURSIVE SeqsUpTo(_, _)
SeqsUpTo(S, n) ==
    IF n = 0 THEN {<<>>}
    ELSE LET shorter == SeqsUpTo(S, n - 1)
         IN  shorter \cup { Append(s, x) : s \in {t \in shorter : Len(t) = n - 1}, x \in S }

-----------------------------------------------------------------------------
(* What the remote service can answer (section 6 of the design) *)

\* a user object: with an id (possibly the empty string) or without one
UserObjects == { [_id |-> i] : i \in Ids \cup {EmptyStr} } \cup { [name |-> EmptyStr] }

\* one entry of data.results
Entries ==
    { [type |-> "user", user |-> u] : u \in UserObjects }
    \cup { [type |-> "user"] }
    \cup { [type |-> "teaser"] }
    \cup { [user |-> [_id |-> 1]] }

\* a parsed JSON page: without data, with data lacking results, or with results
JsonPages ==
    { [meta |-> HTTP_OK], [meta |-> HTTP_OK, data |-> [timeout |-> 1]] }
    \cup { [meta |-> HTTP_OK, data |-> [results |-> r]] : r \in SeqsUpTo(Entries, MaxResults) }

\* a body that is not JSON, as tokens
TextBodies == SeqsUpTo({"data", "<html>"}, MaxTextLen)

\* the outcome of requests.get: an exception, or a response
Outcomes ==
    { [exc |-> "RequestException"] }
    \cup { [status_code |-> s, text |-> t] : s \in ErrorStatuses, t \in {<<>>} }
    \cup { [status_code |-> HTTP_OK, json |-> p] : p \in JsonPages }
    \cup { [status_code |-> HTTP_OK, text |-> t] : t \in TextBodies }

-----------------------------------------------------------------------------
(* make_recs_request: <<status, body, the JSONDecodeError handler ran>> *)

make_recs_request(o) ==
    IF "exc" \in DOMAIN o
    THEN <<None, [kind |-> "text", text |-> <<"error">>], FALSE>>
    ELSE IF o.status_code = HTTP_OK
         THEN IF "json" \in DOMAIN o
              THEN <<o.status_code, [kind |-> "json", json |-> o.json], FALSE>>
              ELSE <<o.status_code, [kind |-> "text", text |-> o.text], TRUE>>
         ELSE <<o.status_code, [kind |-> "text", text |-> o.text], FALSE>>

-----------------------------------------------------------------------------
(* extract_users_from_response *)

\* any(u['user_id'] == user_id for u in self.users_collected)
IsCollectedNever(users, user_id) == FALSE
IsCollected(users, user_id) == \E i \in 1..Len(users) : users[i].user_id = user_id

\* the test of line 152: result.get('type') != 'user'
SkipType(result) == "type" \notin DOMAIN result \/ result.type # "user"

\* the test of line 158
SkipIdOnlyNone(users, user_id) == user_id = None \/ IsCollected(users, user_id)
SkipId(users, user_id) == ~Truthy(user_id) \/ IsCollected(users, user_id)

user_data(user_id) == [user_id |-> user_id]

\* the for loop of lines 151-175 from entry i on: <<users_collected, users_found>>
RECURSIVE ExtractLoop(_, _, _, _)
ExtractLoop(results, i, users, users_found) ==
    IF i > Len(results) THEN <<users, users_found>>
    ELSE LET result == results[i]
         IN  IF SkipType(result)
             THEN ExtractLoop(results, i + 1, users, users_found)
             ELSE LET user == Get(result, "user", << >>)
                      user_id == Get(user, "_id", None)
                  IN  IF SkipId(users, user_id)
                      THEN ExtractLoop(results, i + 1, users, users_found)
                      ELSE ExtractLoop(results, i + 1,
                                       Append(users, user_data(user_id)),
                                       users_found + 1)

\* extract_users_from_response without the guard of lines 147-148:
\* a missing key raises KeyError
extract_users_unguarded(data, users) ==
    IF IsStr(data) \/ "data" \notin DOMAIN data.json \/ "results" \notin DOMAIN data.json.data
    THEN [raised |-> TRUE, users_collected |-> users, ret |-> None]
    ELSE LET r == ExtractLoop(data.json.data.results, 1, users, 0)
         IN  [raised |-> FALSE, users_collected |-> r[1], ret |-> r[2]]

\* lines 145-177: [raised, users_collected, ret]; raised stands for the
\* TypeError of data['data'] on a str
extract_users_from_response(data, users) ==
    IF IsStr(data)
    THEN IF ~StrContains(data.text, "data")
         THEN [raised |-> FALSE, users_collected |-> users, ret |-> 0]
         ELSE [raised |-> TRUE, users_collected |-> users, ret |-> None]
    ELSE IF "data" \notin DOMAIN data.json \/ "results" \notin DOMAIN data.json.data
         THEN [raised |-> FALSE, users_collected |-> users, ret |-> 0]
         ELSE LET r == ExtractLoop(data.json.data.results, 1, users, 0)
              IN  [raised |-> FALSE, users_collected |-> r[1], ret |-> r[2]]

-----------------------------------------------------------------------------
(* save_users_to_csv *)

\* csv.DictWriter row of a user_data dict, in csv_headers order
csv_row(u) == <<u.user_id>>

save_users_to_csv_first(rows, new_users_data) ==
    IF new_users_data = <<>> THEN rows
    ELSE Append(rows, csv_row(new_users_data[1]))
save_users_to_csv(rows, new_users_data) ==
    IF new_users_data = <<>> THEN rows
    ELSE rows \o [i \in 1..Len(new_users_data) |-> csv_row(new_users_data[i])]

-----------------------------------------------------------------------------
(* calculate_age *)

Digits == <<"0", "1", "2", "3", "4", "5", "6", "7", "8", "9">>
IsDigit(c) == \E k \in 1..10 : Digits[k] = c
DigitVal(c) == (CHOOSE k \in 1..10 : Digits[k] = c) - 1

NA == <<"N", "/", "A">>
NotADate == <<"n", "o", "t", "-", "a", "-", "d", "a", "t", "e">>
\* the time part the service sends, "T00:00:00.000Z"
ZuluTime == <<"T", "0", "0", ":", "0", "0", ":", "0", "0", ".", "0", "0", "0", "Z">>
UtcOffset == <<"+", "0", "0", ":", "0", "0">>

\* str.replace('Z', '+00:00')
RECURSIVE ReplaceZ(_)
ReplaceZ(s) ==
    IF s = <<>> THEN <<>>
    ELSE (IF Head(s) = "Z" THEN UtcOffset ELSE <<Head(s)>>) \o ReplaceZ(Tail(s))

IsLeap(y) == (y % 4 = 0 /\ y % 100 # 0) \/ y % 400 = 0
DaysInMonth(y, m) ==
    IF m = 2 THEN (IF IsLeap(y) THEN 29 ELSE 28)
    ELSE IF m \in {4, 6, 9, 11} THEN 30 ELSE 31

\* the time parts datetime.fromisoformat is given here: none, or midnight UTC
IsoTimeOk(rest) == rest = <<>> \/ rest = ReplaceZ(ZuluTime)

\* datetime.fromisoformat on "YYYY-MM-DD" and a time part:
\* [ok |-> FALSE] stands for ValueError
fromisoformat(s) ==
    IF /\ Len(s) >= 10
       /\ \A i \in {1, 2, 3, 4, 6, 7, 9, 10} : IsDigit(s[i])
       /\ s[5] = "-" /\ s[8] = "-"
       /\ IsoTimeOk(SubSeq(s, 11, Len(s)))
    THEN LET y == 1000 * DigitVal(s[1]) + 100 * DigitVal(s[2])
                  + 10 * DigitVal(s[3]) + DigitVal(s[4])
             m == 10 * DigitVal(s[6]) + DigitVal(s[7])
             d == 10 * DigitVal(s[9]) + DigitVal(s[10])
         IN  IF y >= 1 /\ m \in 1..12 /\ d >= 1 /\ d <= DaysInMonth(y, m)
             THEN [ok |-> TRUE, year |-> y, month |-> m, day |-> d]
             ELSE [ok |-> FALSE]
    ELSE [ok |-> FALSE]

AgeNA == [kind |-> "N/A"]
AgeOf(n) == [kind |-> "int", value |-> n]

\* the adjustment test of line 48
BirthdayNotReachedOrToday(now, b) ==
    now[2] < b.month \/ (now[2] = b.month /\ now[3] <= b.day)
BirthdayNotReached(now, b) ==
    now[2] < b.month \/ (now[2] = b.month /\ now[3] < b.day)

calculate_age(s, now) ==
    IF s = <<>> \/ s = NA THEN AgeNA
    ELSE LET birth_date == fromisoformat(ReplaceZ(s))
         IN  IF ~birth_date.ok THEN AgeNA
             ELSE AgeOf(now[1] - birth_date.year
                        - (IF BirthdayNotReached(now, birth_date) THEN 1 ELSE 0))

-----------------------------------------------------------------------------
(* run_continuous_scraping *)

\* the while condition of line 196
LoopCondition(limit, count) == ~Truthy(limit) \/ count < limit

\* the test of line 210
HasNewUsersAlways(count) == TRUE
HasNewUsers(count) == count > 0

\* where each way out of the try statement leads: the finally block
AfterLoopSkipOnInterrupt(reason) == IF reason = "interrupt" THEN "done" ELSE "finally"
AfterLoopRetry(reason) == IF reason = "non200" THEN "sleep" ELSE "finally"
AfterLoop(reason) == "finally"

Init ==
    /\ users_collected = <<>>
    /\ request_count = 0
    /\ csv_rows = <<>>
    /\ max_requests \in {None} \cup (0..MaxLimit)
    /\ pc = "while"
    /\ status_code = Unbound
    /\ response_data = [kind |-> "unbound"]
    /\ initial_user_count = Unbound
    /\ new_users_count = Unbound
    /\ json_error = FALSE
    /\ fetches = 0
    /\ stop_reason = "none"
    /\ summary_runs = 0
    /\ reported = [requests |-> Unbound, users |-> Unbound]
    /\ escaped = FALSE
    /\ today = <<2024, 6, 15>>
    /\ birth = <<2000, 6, 15>>
    /\ birth_date_str = <<>>
    /\ age = [kind |-> "unbound"]

\* lines 196-200: test the limit, count the request, start the fetch.
\* The locals of the previous cycle are dead here (each is assigned before
\* it is read again) and are dropped.
NextRequest ==
    /\ pc = "while"
    /\ LoopCondition(max_requests, request_count)
    /\ request_count' = request_count + 1
    /\ fetches' = fetches + 1
    /\ pc' = "fetch"
    /\ status_code' = Unbound
    /\ response_data' = [kind |-> "unbound"]
    /\ initial_user_count' = Unbound
    /\ new_users_count' = Unbound
    /\ json_error' = FALSE
    /\ UNCHANGED <<users_collected, csv_rows, max_requests,
                   stop_reason, summary_runs, reported, escaped>>
    /\ UNCHANGED age_vars

\* line 196: the while condition is false
RequestLimit ==
    /\ pc = "while"
    /\ ~LoopCondition(max_requests, request_count)
    /\ stop_reason' = "limit"
    /\ pc' = AfterLoop("limit")
    /\ UNCHANGED <<users_collected, request_count, csv_rows, max_requests,
                   status_code, response_data, initial_user_count,
                   new_users_count, json_error, fetches, summary_runs,
                   reported, escaped>>
    /\ UNCHANGED age_vars

\* lines 200-218: the fetch returns and the rest of the cycle runs
Cycle ==
    /\ pc = "fetch"
    /\ \E o \in Outcomes :
         LET got == make_recs_request(o)
         IN  /\ status_code' = got[1]
             /\ response_data' = got[2]
             /\ json_error' = got[3]
             /\ IF got[1] # HTTP_OK
                THEN /\ stop_reason' = "non200"
                     /\ pc' = AfterLoop("non200")
                     /\ UNCHANGED <<users_collected, csv_rows,
                                    initial_user_count, new_users_count>>
                ELSE LET ex == extract_users_from_response(got[2], users_collected)
                     IN  /\ initial_user_count' = Len(users_collected)
                         /\ users_collected' = ex.users_collected
                         /\ IF ex.raised
                            THEN /\ stop_reason' = "exception"
                                 /\ pc' = AfterLoop("exception")
                                 /\ UNCHANGED <<csv_rows, new_users_count>>
                            ELSE /\ new_users_count' = ex.ret
                                 /\ IF HasNewUsers(ex.ret)
                                    THEN /\ csv_rows' = save_users_to_csv(csv_rows,
                                              SubSeq(ex.users_collected,
                                                     Len(users_collected) + 1,
                                                     Len(ex.users_collected)))
                                         /\ pc' = "sleep"
                                         /\ UNCHANGED stop_reason
                                    ELSE /\ stop_reason' = "empty"
                                         /\ pc' = AfterLoop("empty")
                                         /\ UNCHANGED csv_rows
    /\ UNCHANGED <<request_count, max_requests, fetches, summary_runs,
                   reported, escaped>>
    /\ UNCHANGED age_vars

\* line 218: time.sleep returns
Sleep ==
    /\ pc = "sleep"
    /\ pc' = "while"
    /\ UNCHANGED <<users_collected, request_count, csv_rows, max_requests,
                   status_code, response_data, initial_user_count,
                   new_users_count, json_error, fetches, stop_reason,
                   summary_runs, reported, escaped>>
    /\ UNCHANGED age_vars

\* lines 220-221: KeyboardInterrupt during the fetch or during the sleep
Interrupt ==
    /\ pc \in {"fetch", "sleep"}
    /\ stop_reason' = "interrupt"
    /\ pc' = AfterLoop("interrupt")
    /\ UNCHANGED <<users_collected, request_count, csv_rows, max_requests,
                   status_code, response_data, initial_user_count,
                   new_users_count, json_error, fetches, summary_runs,
                   reported, escaped>>
    /\ UNCHANGED age_vars

\* lines 223-236: the summary; an uncaught exception then leaves the function
Summary ==
    /\ pc = "finally"
    /\ summary_runs' = summary_runs + 1
    /\ reported' = [requests |-> request_count, users |-> Len(users_collected)]
    /\ escaped' = (stop_reason = "exception")
    /\ pc' = "done"
    /\ UNCHANGED <<users_collected, request_count, csv_rows, max_requests,
                   status_code, response_data, initial_user_count,
                   new_users_count, json_error, fetches, stop_reason>>
    /\ UNCHANGED age_vars

Next == NextRequest \/ RequestLimit \/ Cycle \/ Sleep \/ Interrupt \/ Summary

Spec == Init /\ [][Next]_vars

\* the program is sequential and every blocking call returns
FairSpec == Spec /\ WF_vars(Next)

-----------------------------------------------------------------------------
(* calculate_age on its own: the clock and the argument are drawn at the start *)

BirthYears == {2000, 2001}
NowYears == {2023, 2024}
BirthDays == {1, 14, 15, 16, 28, 29, 30, 31, 32}

TwoDigits(n) == <<Digits[(n \div 10) + 1], Digits[(n % 10) + 1]>>
FourDigits(n) == TwoDigits(n \div 100) \o TwoDigits(n % 100)
FormatDate(ymd) == FourDigits(ymd[1]) \o <<"-">> \o TwoDigits(ymd[2]) \o <<"-">> \o TwoDigits(ymd[3])

IsValidDate(ymd) == ymd[2] \in 1..12 /\ ymd[3] >= 1 /\ ymd[3] <= DaysInMonth(ymd[1], ymd[2])

NowDates == { ymd \in NowYears \X (1..12) \X (1..31) : IsValidDate(ymd) }
\* year-month-day triples a birth_date string is written from, valid or not
BirthTriples == BirthYears \X (0..13) \X BirthDays

InitAge ==
    /\ users_collected = <<>>
    /\ request_count = 0
    /\ csv_rows = <<>>
    /\ max_requests = None
    /\ pc = "while"
    /\ status_code = Unbound
    /\ response_data = [kind |-> "unbound"]
    /\ initial_user_count = Unbound
    /\ new_users_count = Unbound
    /\ json_error = FALSE
    /\ fetches = 0
    /\ stop_reason = "none"
    /\ summary_runs = 0
    /\ reported = [requests |-> Unbound, users |-> Unbound]
    /\ escaped = FALSE
    /\ today \in NowDates
    /\ \/ /\ birth \in BirthTriples
          /\ birth_date_str \in {FormatDate(birth), FormatDate(birth) \o ZuluTime}
       \/ /\ birth = <<0, 0, 0>>
          /\ birth_date_str \in {<<>>, NA, NotADate}
    /\ age = [kind |-> "unbound"]

\* lines 37-53
CalculateAge ==
    /\ age.kind = "unbound"
    /\ age' = calculate_age(birth_date_str, today)
    /\ UNCHANGED <<today, birth, birth_date_str>>
    /\ UNCHANGED scraper_vars

NextAge == CalculateAge

SpecAge == InitAge /\ [][NextAge]_vars

-----------------------------------------------------------------------------
(* Properties *)

IsPrefix(s, t) == Len(s) <= Len(t) /\ SubSeq(t, 1, Len(s)) = s

\* the last fetch returned a parsed JSON page
GotJson == status_code = HTTP_OK /\ response_data.kind = "json"
HasResults(page) == "data" \in DOMAIN page /\ "results" \in DOMAIN page.data

\* an entry of data.results is a user entry carrying a non-empty id
IsUserEntry(e) == "type" \in DOMAIN e /\ e.type = "user"
CarriesId(e) == "user" \in DOMAIN e /\ "_id" \in DOMAIN e.user /\ e.user._id \notin {None, EmptyStr}

\* C1: no two collected records and no two stored rows share a user_id,
\* whatever pages arrive (an id twice on a page, or again on a later page).
C1_UniqueUserIds ==
    /\ \A i, j \in 1..Len(users_collected) :
         i # j => users_collected[i].user_id # users_collected[j].user_id
    /\ \A i, j \in 1..Len(csv_rows) : i # j => csv_rows[i][1] # csv_rows[j][1]

\* a page carried the same new id twice, after an earlier page had added records
C1_Witness ==
    /\ GotJson /\ HasResults(response_data.json)
    /\ initial_user_count >= 1
    /\ LET results == response_data.json.data.results
       IN  \E i, j \in 1..Len(results) :
             /\ i < j
             /\ IsUserEntry(results[i]) /\ CarriesId(results[i])
             /\ IsUserEntry(results[j]) /\ CarriesId(results[j])
             /\ results[i].user._id = results[j].user._id
             /\ Cardinality({k \in 1..Len(users_collected) :
                    users_collected[k].user_id = results[i].user._id}) = 1
             /\ Cardinality({k \in 1..Len(csv_rows) :
                    csv_rows[k][1] = results[i].user._id}) = 1
             /\ users_collected[Len(users_collected)].user_id = results[i].user._id

Failed(s) == s # HTTP_OK /\ s # Unbound

\* C2: a fetch whose status is not 200 (an HTTP status or the sentinel None)
\* adds no record, writes no row and leads to the summary; after it no further
\* fetch is issued and nothing is added or written.
C2_NoRetryAfterFailedFetch ==
    [][ /\ (Failed(status_code') /\ ~Failed(status_code)) =>
              /\ users_collected' = users_collected
              /\ csv_rows' = csv_rows
              /\ fetches' = fetches
              /\ pc' = "finally"
        /\ Failed(status_code) =>
              /\ users_collected' = users_collected
              /\ csv_rows' = csv_rows
              /\ fetches' = fetches
              /\ pc' \in {"finally", "done"} ]_vars

\* a run ended by the sentinel status of a transport failure, after a good page
C2_Witness ==
    /\ status_code = None /\ pc = "done" /\ stop_reason = "non200"
    /\ fetches = 2 /\ Len(users_collected) >= 1

\* C3: a body that is not JSON ends the loop gracefully: no exception leaves
\* run_continuous_scraping.
C3_MalformedJsonStopsGracefully ==
    json_error => (stop_reason # "exception" /\ ~escaped)

\* C4: with a maximum request count N >= 0 configured, at most N fetches are
\* issued and the counter reported at the end is the number of fetches issued.
C4_RequestLimitRespected ==
    max_requests # None =>
        /\ fetches <= max_requests
        /\ (pc = "done" => reported.requests = fetches)

SummaryDone ==
    /\ pc = "done"
    /\ summary_runs = 1
    /\ reported = [requests |-> request_count, users |-> Len(users_collected)]

\* C5: however the loop is left (non-200 status, a page without new records,
\* the request limit, an interrupt during the fetch or the delay), the summary
\* runs afterwards, exactly once, and reports the request counter and the size
\* of the collection.
C5_EveryExitReachesSummary ==
    /\ [](stop_reason # "none" => <>SummaryDone)
    /\ [](summary_runs <= 1)
    /\ [](pc = "done" => SummaryDone)

\* an interrupt during the delay, after records were collected, then the summary
C5_Witness ==
    /\ SummaryDone /\ stop_reason = "interrupt"
    /\ Len(users_collected) >= 1 /\ request_count = 1

\* a step in which a fetch returned (not an interrupt of the fetch)
FetchReturned == pc = "fetch" /\ stop_reason' # "interrupt"
NoNewRecords == Len(users_collected') = Len(users_collected)

RowsOf(users) == [i \in 1..Len(users) |-> <<users[i].user_id>>]

C8_AgeFormula ==
    (age.kind # "unbound" /\ birth # <<0, 0, 0>> /\ IsValidDate(birth)) =>
        age = AgeOf(today[1] - birth[1]
                    - (IF 100 * today[2] + today[3] < 100 * birth[2] + birth[3]
                       THEN 1 ELSE 0))

\* born 2000-06-15, asked on 2024-06-15: 24
C8_Witness ==
    /\ today = <<2024, 6, 15>> /\ birth = <<2000, 6, 15>>
    /\ birth_date_str = FormatDate(birth) \o ZuluTime
    /\ age = AgeOf(24)

\* entry i of the page added a record: a user entry with a non-empty id that
\* was neither collected before the call nor carried by an earlier entry
Adds(results, old, i) ==
    /\ IsUserEntry(results[i]) /\ CarriesId(results[i])
    /\ \A k \in 1..Len(old) : old[k].user_id # results[i].user._id
    /\ \A j \in 1..(i - 1) :
         ~(IsUserEntry(results[j]) /\ CarriesId(results[j])
           /\ results[j].user._id = results[i].user._id)

\* C9: after extraction of a page, the records appended by the call are those
\* of the entries that are user entries with a non-empty id not yet collected,
\* in page order, the other entries being skipped, and the returned count is
\* the number of records appended.
C9_ExtractionAddsExactly ==
    (GotJson /\ HasResults(response_data.json)) =>
        LET results == response_data.json.data.results
            old == SubSeq(users_collected, 1, initial_user_count)
            new == SubSeq(users_collected, initial_user_count + 1, Len(users_collected))
            adding == {i \in 1..Len(results) : Adds(results, old, i)}
        IN  /\ new_users_count = Len(new)
            /\ Len(new) = Cardinality(adding)
            /\ \A i \in adding :
                 new[Cardinality({j \in adding : j <= i})].user_id = results[i].user._id

\* the first entry was skipped and the second one still added a record
C9_Witness ==
    /\ GotJson /\ HasResults(response_data.json)
    /\ LET results == response_data.json.data.results
           old == SubSeq(users_collected, 1, initial_user_count)
       IN  /\ Len(results) = 2
           /\ IsUserEntry(results[1]) /\ ~CarriesId(results[1])
           /\ Adds(results, old, 2)
           /\ new_users_count = 1
           /\ users_collected[Len(users_collected)].user_id = results[2].user._id

\* C10: the ids being finitely many and every fetch returning, the run ends
\* with the summary, also without a maximum request count, and then the
\* requests issued are at most the records collected plus one.
C10_Terminates ==
    /\ <>(pc = "done")
    /\ [](pc = "done" => request_count <= Len(users_collected) + 1)
    /\ [][(FetchReturned /\ pc' = "sleep") =>
             \E k \in 1..Len(users_collected') :
                ~IsCollected(users_collected, users_collected'[k].user_id)]_vars

\* no limit configured: every id collected, one page each, and a last request
C10_Witness ==
    /\ pc = "done" /\ max_requests = None
    /\ Len(users_collected) = NumIds
    /\ request_count = NumIds + 1

====
